---- MODULE Spec2Model ----
(***************************************************************************)
(* itv-stream: freshness-aware channel cache (cache.py), change ledger     *)
(* (change_log.py), link history tracker (dashboard.py), upstream fetch    *)
(* (client.py) and the refresh scheduler and HTTP handlers (main.py).      *)
(*                                                                         *)
(* All handlers and the scheduler are coroutines of one asyncio event      *)
(* loop; cache.py, change_log.py and dashboard.record_link are synchronous *)
(* and so run without interleaving.  The only suspension points of the     *)
(* scheduler are the upstream POST inside fetch_stream_url and the sleep   *)
(* between cycles.  Before the POST fetch_stream_url only reads the        *)
(* environment, so a scheduler step (fetch, ledger writes, cache set) is   *)
(* modelled as one action; other coroutines interleave between steps.      *)
(*                                                                         *)
(* main.py names three things cache.py does not provide: it imports        *)
(* peek_cached_entry (main.py:11) and CACHE (main.py:88) and calls         *)
(* get_cached_url with two arguments (main.py:35).  The model takes each   *)
(* function of main.py as written and raises where the function would: the *)
(* scheduler (main.py:93-113) uses only names cache.py defines.            *)
(*                                                                         *)
(* The specifications share the variables: Spec is the scheduler with its  *)
(* upstream, its storage faults and the token reload; SpecCache is the     *)
(* cache under its readers and the clock; SpecMeta is the cache of one     *)
(* channel under every shape of locator; SpecLedger is the ledger at its   *)
(* capacity; SpecReports is the ledger under its queries and the health    *)
(* check; SpecShared is the ledger at its capacity under writers and        *)
(* readers; SpecLinks is the link history tracker; SpecChannels is the     *)
(* channels side by side under the scheduler, readers and the tracker;     *)
(* SpecLive is the scheduler running for ever, with fairness.              *)
(***************************************************************************)
EXTENDS Integers, Sequences, FiniteSets, TLC

VARIABLES
    now,           \* datetime.utcnow() in whole seconds
    cache_store,   \* cache.py:6    channel -> entry (a dict: partial function)
    log_file,      \* change_log.py:11  the LOG_FILE on disk
    latest_links,  \* dashboard.py:9    channel -> url
    link_history,  \* dashboard.py:10   channel -> list of records
    access_token,  \* os.environ holds a usable ITV access token
    sched,         \* position of startup_event / auto_refresh_loop
    fetch_calls,   \* calls the scheduler made to fetch_stream_url this cycle
    ret,           \* the last call of a reader, handler or cache user, and its result
    events,        \* environment events so far (faults, reloads, clock steps, appends)
    served         \* history: channel -> locators get_cached_url returned since the
                   \* last set_cached_url of the channel

vars == <<now, cache_store, log_file, latest_links, link_history,
          access_token, sched, fetch_calls, ret, events, served>>

----------------------------------------------------------------------------
(* Bounds of the model *)

MaxCycles == 1      \* cycles of auto_refresh_loop after its first one
MaxFaults == 1      \* upstream faults, storage faults and token reloads per run
MaxTicks == 2       \* clock steps per run of the cache specification
MaxRequests == 2    \* cache hits counted per entry
MaxAppends == 3     \* appends per run of the ledger specification

(* Program constants *)

REFRESH_INTERVAL == 21300
DEFAULT_VALIDITY == 3600
LOG_CAPACITY == 1000
EXCERPT_LEN == 200
UPSTREAM_OK == 200

CHANNELS == <<"ITV", "ITV2", "ITV3", "ITV4", "ITVBe">>

ChannelSet == {CHANNELS[i] : i \in 1..Len(CHANNELS)}

----------------------------------------------------------------------------
(* Locators are strings; a string is modelled as a tuple of characters so  *)
(* that the regular expression of extract_expiry can be evaluated.         *)

Digits == {"0", "1", "2", "3", "4", "5", "6", "7", "8", "9"}

DigitVal(d) ==
    CASE d = "0" -> 0 [] d = "1" -> 1 [] d = "2" -> 2 [] d = "3" -> 3
      [] d = "4" -> 4 [] d = "5" -> 5 [] d = "6" -> 6 [] d = "7" -> 7
      [] d = "8" -> 8 [] d = "9" -> 9

\* int(s) for a string of decimal digits
RECURSIVE ParseInt(_)
ParseInt(s) ==
    IF s = <<>> THEN 0
    ELSE 10 * ParseInt(SubSeq(s, 1, Len(s) - 1)) + DigitVal(s[Len(s)])

\* the pattern [?&]exp=(\d+) matches at position i of url
MatchesAt(url, i) ==
    /\ i + 5 <= Len(url)
    /\ url[i] \in {"?", "&"}
    /\ SubSeq(url, i + 1, i + 4) = <<"e", "x", "p", "=">>
    /\ url[i + 5] \in Digits

\* end of the greedy run of digits that starts at position j
RECURSIVE DigitRunEnd(_, _)
DigitRunEnd(url, j) ==
    IF j < Len(url) /\ url[j + 1] \in Digits THEN DigitRunEnd(url, j + 1) ELSE j

\* cache.py:8-12
extract_expiry(url, t) ==
    LET hits == {i \in 1..Len(url) : MatchesAt(url, i)}
    IN  IF hits # {}
        THEN LET i == CHOOSE k \in hits : \A m \in hits : k <= m
             IN  ParseInt(SubSeq(url, i + 5, DigitRunEnd(url, i + 5)))
        ELSE t + DEFAULT_VALIDITY

\* locators of the model: one that carries exp=2, one without an expiry
\* parameter
LocExp == <<"a", "?", "e", "x", "p", "=", "2">>
LocPlain == <<"c">>
Locators == {LocExp, LocPlain}

\* the locator upstream hands out for a channel
LocatorOf(c) == IF c = "ITV" THEN LocExp ELSE LocPlain

NoUrl == <<>>

----------------------------------------------------------------------------
(* cache.py *)

HasEntry(store, c) == c \in DOMAIN store

\* cache.py:18-23, the entry built by set_cached_url
NewEntry(url, t) ==
    [url |-> url,
     expiry |-> extract_expiry(url, t),
     validity |-> extract_expiry(url, t) - t,
     requests |-> 0]

\* mutant: a set of the locator already cached is short-circuited
set_cached_url_skips_duplicate(store, c, url, t) ==
    IF c \in DOMAIN store /\ store[c].url = url
    THEN store
    ELSE [k \in DOMAIN store \cup {c} |-> IF k = c THEN NewEntry(url, t) ELSE store[k]]

\* cache.py:14-24
set_cached_url(store, c, url, t) ==
    [k \in DOMAIN store \cup {c} |-> IF k = c THEN NewEntry(url, t) ELSE store[k]]

\* mutant: an entry still counts as fresh at its expiry second
IsFreshAtExpiry(entry, t) == entry.expiry >= t

\* cache.py:29, the freshness test of get_cached_url
IsFresh(entry, t) == entry.expiry > t

\* cache.py:27-29
IsHit(store, c, t) == HasEntry(store, c) /\ IsFresh(store[c], t)

\* mutant: a hit writes back one more than the count the entry was set with,
\* the update a reader working on a stale copy of the entry would make
CountRequestFromStaleCopy(store, c, t) ==
    IF IsHit(store, c, t)
    THEN [store EXCEPT ![c].requests = 1]
    ELSE store

\* cache.py:30, the store after get_cached_url
CountRequest(store, c, t) ==
    IF IsHit(store, c, t)
    THEN [store EXCEPT ![c].requests = @ + 1]
    ELSE store

\* cache.py:32-34, the value get_cached_url returns (None as NoUrl)
CachedUrl(store, c, t) ==
    IF IsHit(store, c, t) THEN store[c].url ELSE NoUrl

\* Python's empty dict
EmptyMeta == << >>

\* mutant: an expired entry is reported as no entry
get_cached_meta_fresh_only(store, c) ==
    IF c \in DOMAIN store /\ store[c].expiry > now THEN store[c] ELSE EmptyMeta

\* cache.py:36-37: cache_store.get(channel, {})
get_cached_meta(store, c) ==
    IF c \in DOMAIN store THEN store[c] ELSE EmptyMeta

\* the history of returned locators: a set starts the count of its channel
\* again (cache.py:18), a get that returns a locator adds one (cache.py:32)
ServedAfterSet(sv, c) ==
    [k \in DOMAIN sv \cup {c} |-> IF k = c THEN 0 ELSE sv[k]]

ServedAfterGet(sv, store, c, t) ==
    IF CachedUrl(store, c, t) # NoUrl THEN [sv EXCEPT ![c] = @ + 1] ELSE sv

----------------------------------------------------------------------------
(* change_log.py *)

EventTypes == {"token_refresh", "url_refresh", "url_error", "token_error"}

NoFile == [status |-> "missing", logs |-> <<>>]

\* change_log.py:22-29
LogEntry(t, event_type, channel, details) ==
    [timestamp |-> t, event_type |-> event_type, channel |-> channel,
     details |-> details]

UrlDetails(url) ==
    [key |-> "url", url |-> SubSeq(url, 1, IF Len(url) < EXCERPT_LEN THEN Len(url) ELSE EXCERPT_LEN),
     status |-> 0]
StatusDetails(code) == [key |-> "status", url |-> NoUrl, status |-> code]
ErrorDetails == [key |-> "error", url |-> NoUrl, status |-> 0]

\* storage behaviour of one log_change call: whether the read of an existing
\* file succeeds, and how the write ends
WriteOutcomes == {"ok", "open_failed", "dump_failed"}
IOs == [read : BOOLEAN, write : WriteOutcomes]
GoodIO == [read |-> TRUE, write |-> "ok"]
IOFaults(io) == (IF io.read THEN 0 ELSE 1) + (IF io.write = "ok" THEN 0 ELSE 1)

\* change_log.py:32-38
ReadLogs(file, io) ==
    IF file.status = "ok" /\ io.read THEN file.logs ELSE <<>>

\* mutant: truncation keeps the oldest entries
TruncateKeepsOldest(logs) ==
    IF Len(logs) > LOG_CAPACITY THEN SubSeq(logs, 1, LOG_CAPACITY) ELSE logs

\* change_log.py:42-43
Truncate(logs) ==
    IF Len(logs) > LOG_CAPACITY
    THEN SubSeq(logs, Len(logs) - LOG_CAPACITY + 1, Len(logs))
    ELSE logs

\* change_log.py:46-47
WriteLogs(file, logs, io) ==
    CASE io.write = "ok" -> [status |-> "ok", logs |-> logs]
      [] io.write = "open_failed" -> file
      [] io.write = "dump_failed" -> [status |-> "corrupt", logs |-> <<>>]

\* mutant: the new entry is written without the entries read, the update
\* of a writer that lost the list it had read
log_change_loses_read(file, entry, io) ==
    WriteLogs(file, Truncate(<<entry>>), io)

\* change_log.py:14-47, the file after log_change
log_change(file, entry, io) ==
    WriteLogs(file, Truncate(Append(ReadLogs(file, io), entry)), io)

\* change_log.py:46, log_change raises when the write fails
LogRaises(io) == io.write # "ok"

\* change_log.py:50-60
get_logs(file, limit) ==
    IF file.status = "ok"
    THEN SubSeq(file.logs,
                IF limit = 0 \/ Len(file.logs) <= limit THEN 1 ELSE Len(file.logs) - limit + 1,
                Len(file.logs))
    ELSE <<>>

\* the ledger as its readers see it
Ledger == get_logs(log_file, LOG_CAPACITY)

\* change_log.py:66,94: [l for l in logs if l['event_type'] == event_type]
EventsOfType(logs, event_type) ==
    SelectSeq(logs, LAMBDA l : l.event_type = event_type)

\* change_log.py:97: [l for l in url_events if l['channel'] == channel]
EventsOfChannel(logs, channel) ==
    SelectSeq(logs, LAMBDA l : l.channel = channel)

\* Python's None
None == [none |-> TRUE]

\* change_log.py:76: seconds / 3600.  total_seconds() of whole-second
\* timestamps is a whole number; the quotient is kept as a fraction.
SECONDS_PER_HOUR == 3600
Hours(seconds, n) == [num |-> seconds, den |-> SECONDS_PER_HOUR * n]

\* the fraction q is a / b
IsRatio(q, a, b) == q.num * b = a * q.den

\* mutant: every gap is measured from the first token event
IntervalsFromFirst(evs) ==
    [i \in 1..(Len(evs) - 1) |-> evs[i + 1].timestamp - evs[1].timestamp]

\* change_log.py:72-77: the gaps (in seconds) between adjacent token events
Intervals(evs) ==
    [i \in 1..(Len(evs) - 1) |-> evs[i + 1].timestamp - evs[i].timestamp]

RECURSIVE SumSeq(_)
SumSeq(q) == IF q = << >> THEN 0 ELSE q[1] + SumSeq(Tail(q))

MinSeq(q) == CHOOSE m \in {q[i] : i \in 1..Len(q)} : \A i \in 1..Len(q) : m <= q[i]
MaxSeq(q) == CHOOSE m \in {q[i] : i \in 1..Len(q)} : \A i \in 1..Len(q) : m >= q[i]

\* change_log.py:63-88
get_token_history(file) ==
    LET token_events == EventsOfType(get_logs(file, LOG_CAPACITY), "token_refresh")
        intervals == Intervals(token_events)
    IN  IF token_events = << >>
        THEN None                                   \* change_log.py:68-69
        ELSE IF intervals = << >>
             THEN None                              \* change_log.py:79-80
             ELSE [total_refreshes |-> Len(token_events),
                   avg_hours_between |-> Hours(SumSeq(intervals), Len(intervals)),
                   min_hours |-> Hours(MinSeq(intervals), 1),
                   max_hours |-> Hours(MaxSeq(intervals), 1),
                   last_refresh |-> token_events[Len(token_events)].timestamp]

URL_HISTORY_LEN == 20

\* mutant: the first 20 matching entries are returned
FirstEvents(evs, n) == SubSeq(evs, 1, IF Len(evs) <= n THEN Len(evs) ELSE n)

\* change_log.py:99: url_events[-20:]
LastEvents(evs, n) ==
    SubSeq(evs, IF Len(evs) <= n THEN 1 ELSE Len(evs) - n + 1, Len(evs))

\* change_log.py:91-99; a channel of None or "" is falsy and selects nothing
NoChannel == ""
get_url_history(file, channel) ==
    LET url_events == EventsOfType(get_logs(file, LOG_CAPACITY), "url_refresh")
    IN  LastEvents(IF channel # NoChannel
                   THEN EventsOfChannel(url_events, channel)
                   ELSE url_events,
                   URL_HISTORY_LEN)

----------------------------------------------------------------------------
(* client.py *)

\* what the upstream POST does: a 200 answer carrying a locator, an answer
\* with another status, or an exception (network, timeout, unparsable body)
ErrorStatuses == {403}

Upstream(c) ==
    {[kind |-> "ok", status |-> UPSTREAM_OK, url |-> LocatorOf(c)]}
        \cup {[kind |-> "http", status |-> st, url |-> NoUrl] : st \in ErrorStatuses}
        \cup {[kind |-> "network", status |-> 0, url |-> NoUrl]}

UpstreamFaults(up) == IF up.kind = "ok" THEN 0 ELSE 1

\* client.py:114-145: the ledger file fetch_stream_url leaves, whether it
\* returns (ok) or raises, and the locator it returns.  io1 and io2 are the
\* storage behaviour of its first and second log_change call.
fetch_stream_url(file, token, c, up, io1, io2, t) ==
    IF ~token
    THEN \* client.py:117-121
         [file |-> file, ok |-> FALSE, url |-> NoUrl]
    ELSE LET first ==
                 CASE up.kind = "ok" ->      \* client.py:139-140
                          LogEntry(t, "url_refresh", c, UrlDetails(up.url))
                   [] up.kind = "http" ->    \* client.py:135-137
                          LogEntry(t, "url_error", c, StatusDetails(up.status))
                   [] up.kind = "network" -> \* client.py:142-144
                          LogEntry(t, "url_error", c, ErrorDetails)
             f1 == log_change(file, first, io1)
             \* client.py:142-145, the except block after a raise inside try
             f2 == log_change(f1, LogEntry(t, "url_error", c, ErrorDetails), io2)
         IN  CASE up.kind = "ok" /\ ~LogRaises(io1) ->
                      [file |-> f1, ok |-> TRUE, url |-> up.url]
               [] up.kind = "network" ->
                      [file |-> f1, ok |-> FALSE, url |-> NoUrl]
               [] OTHER ->
                      [file |-> f2, ok |-> FALSE, url |-> NoUrl]

\* the exception fetch_stream_url ends with: none when it returns; the
\* HTTPException of client.py:118 or client.py:145; or the OSError of a
\* log_change call made inside the except block (client.py:144), which
\* leaves fetch_stream_url in place of the HTTPException
NoException == "none"
fetch_stream_url_raises(token, up, io1, io2) ==
    IF ~token
    THEN "HTTPException"
    ELSE CASE up.kind = "ok" /\ ~LogRaises(io1) -> NoException
           [] up.kind = "network" ->
                  IF LogRaises(io1) THEN "OSError" ELSE "HTTPException"
           [] OTHER ->
                  IF LogRaises(io2) THEN "OSError" ELSE "HTTPException"

\* the second log_change call happens only in the except block that follows
\* a raise inside the try block
UsesSecondLog(token, up, io1) ==
    token /\ (up.kind = "http" \/ (up.kind = "ok" /\ LogRaises(io1)))

FetchInputs(token, c) ==
    {x \in [up : Upstream(c), io1 : IOs, io2 : IOs] :
        /\ (~token => x.io1 = GoodIO /\ x.up.kind = "network")
        /\ (~UsesSecondLog(token, x.up, x.io1) => x.io2 = GoodIO)}

InputFaults(x, token) ==
    IF token THEN UpstreamFaults(x.up) + IOFaults(x.io1) + IOFaults(x.io2) ELSE 0

----------------------------------------------------------------------------
(* dashboard.py *)

\* dashboard.py:18-27
record_link_latest(latest, c, url) ==
    IF c \in DOMAIN latest /\ latest[c] = url
    THEN latest
    ELSE [k \in DOMAIN latest \cup {c} |-> IF k = c THEN url ELSE latest[k]]

\* mutant: a record is appended whether or not the locator changed
record_link_history_always(latest, history, c, url, t) ==
    [k \in DOMAIN history \cup {c} |->
        IF k = c
        THEN Append(IF c \in DOMAIN history THEN history[c] ELSE << >>,
                    [url |-> url, timestamp |-> t])
        ELSE history[k]]

\* dashboard.py:20,24-27
record_link_history(latest, history, c, url, t) ==
    IF c \in DOMAIN latest /\ latest[c] = url
    THEN history
    ELSE [k \in DOMAIN history \cup {c} |->
            IF k = c
            THEN Append(IF c \in DOMAIN history THEN history[c] ELSE <<>>,
                        [url |-> url, timestamp |-> t])
            ELSE history[k]]

----------------------------------------------------------------------------
(* main.py: the refresh scheduler *)

\* mutant: a failed fetch ends the cycle
NextIdxStopsOnFailure(i, ok) == IF ok THEN i + 1 ELSE Len(CHANNELS) + 1

\* main.py:96,107: the for loop goes on to the next channel after the try
\* statement, whichever branch ran
NextIdx(i, ok) == i + 1

\* mutant: a failed fetch drops the entry of the channel
OnFetchErrorDropsEntry(store, c) == [k \in DOMAIN store \ {c} |-> store[k]]

\* main.py:101-102,112-113: the except branch only logs a warning
OnFetchError(store, c) == store

\* mutant: the fetched locator is stored in a fresh dict
OnFetchSuccessAlone(store, c, url, t) == set_cached_url(<< >>, c, url, t)

\* main.py:97-100,108-111: the try branch
OnFetchSuccess(store, c, url, t) == set_cached_url(store, c, url, t)

\* mutant: the handler of the loop is "except HTTPException"
CaughtOnlyHTTPException(exc) == exc = "HTTPException"

\* main.py:100,111: "except Exception" catches HTTPException and OSError,
\* both subclasses of Exception
CaughtByScheduler(exc) == exc \in {"HTTPException", "OSError"}

\* one iteration of the for loop of startup_event / auto_refresh_loop: what
\* it does to the service.  An exception the except clause does not catch
\* leaves the loop and ends the coroutine.
CycleEffect(x) ==
    LET c == CHANNELS[sched.idx]
        r == fetch_stream_url(log_file, access_token, c, x.up, x.io1, x.io2, now)
        exc == fetch_stream_url_raises(access_token, x.up, x.io1, x.io2)
    IN  /\ log_file' = r.file
        /\ IF exc # NoException /\ ~CaughtByScheduler(exc)
           THEN /\ sched' = [sched EXCEPT !.phase = "crashed"]
                /\ UNCHANGED <<cache_store, fetch_calls, served>>
           ELSE /\ cache_store' = IF r.ok
                                  THEN OnFetchSuccess(cache_store, c, r.url, now)
                                  ELSE OnFetchError(cache_store, c)
                /\ fetch_calls' = Append(IF sched.idx = 1 THEN <<>> ELSE fetch_calls,
                                         [channel |-> c, ok |-> r.ok])
                /\ LET j == NextIdx(sched.idx, r.ok)
                   IN  sched' = IF j <= Len(CHANNELS)
                                THEN [sched EXCEPT !.idx = j]
                                ELSE IF sched.phase = "startup"
                                     THEN \* main.py:102 create_task(auto_refresh_loop())
                                          [phase |-> "refresh", idx |-> 1, cycle |-> 0]
                                     ELSE \* main.py:113 asyncio.sleep(REFRESH_INTERVAL)
                                          [phase |-> "sleep", idx |-> 1, cycle |-> sched.cycle]
                /\ served' = IF r.ok THEN ServedAfterSet(served, c) ELSE served
        /\ UNCHANGED <<now, latest_links, link_history, access_token, ret>>

\* one iteration, within the fault budget of a run
CycleStep(x) ==
    /\ events + InputFaults(x, access_token) <= MaxFaults
    /\ events' = events + InputFaults(x, access_token)
    /\ CycleEffect(x)

\* main.py:93-102
StartupStep ==
    /\ sched.phase = "startup"
    /\ \E x \in FetchInputs(access_token, CHANNELS[sched.idx]) : CycleStep(x)

\* main.py:104-112
RefreshStep ==
    /\ sched.phase = "refresh"
    /\ \E x \in FetchInputs(access_token, CHANNELS[sched.idx]) : CycleStep(x)

\* main.py:113, the sleep is over
Wake ==
    /\ sched.phase = "sleep"
    /\ sched.cycle < MaxCycles
    /\ sched' = [phase |-> "refresh", idx |-> 1, cycle |-> sched.cycle + 1]
    /\ now' = now + REFRESH_INTERVAL
    /\ UNCHANGED <<cache_store, log_file, latest_links, link_history,
                   access_token, fetch_calls, ret, events, served>>

----------------------------------------------------------------------------
(* main.py: HTTP handlers.  The server accepts requests once startup_event  *)
(* has returned.                                                           *)

NoRet == [op |-> "none", channel |-> "", status |-> 0, url |-> NoUrl]

\* cache.py:26, the positional parameters of get_cached_url
GetCachedUrlParams == 1
\* main.py:35, the arguments of the call get_cached_url(channel, ip)
RedirectCallArgs == 2

\* the names bound in module cache (cache.py:1-37)
CacheModuleNames ==
    {"datetime", "re", "logging", "logger", "cache_store", "extract_expiry",
     "set_cached_url", "get_cached_url", "get_cached_meta"}

HTTP_OK == 200
HTTP_FOUND == 302
HTTP_UNAUTHORIZED == 401
HTTP_INTERNAL_ERROR == 500
HTTP_UNAVAILABLE == 503

\* main.py:32-38: the response of GET /itvx.  A call that does not bind its
\* arguments raises TypeError before the callee runs, and so does indexing
\* the returned str with "url"; the framework answers an uncaught exception
\* with 500.
redirect_itv_response(store, c, t) ==
    IF RedirectCallArgs # GetCachedUrlParams
    THEN [op |-> "redirect_itv", channel |-> c, status |-> HTTP_INTERNAL_ERROR, url |-> NoUrl]
    ELSE IF CachedUrl(store, c, t) # NoUrl
         THEN [op |-> "redirect_itv", channel |-> c, status |-> HTTP_INTERNAL_ERROR, url |-> NoUrl]
         ELSE [op |-> "redirect_itv", channel |-> c, status |-> HTTP_UNAVAILABLE, url |-> NoUrl]

\* main.py:35: the cache after the call
redirect_itv_store(store, c, t) ==
    IF RedirectCallArgs # GetCachedUrlParams THEN store ELSE CountRequest(store, c, t)

\* main.py:32-38
RedirectItv(c) ==
    /\ sched.phase # "startup"
    /\ ret' = redirect_itv_response(cache_store, c, now)
    /\ cache_store' = redirect_itv_store(cache_store, c, now)
    /\ served' = IF RedirectCallArgs # GetCachedUrlParams
                  THEN served
                  ELSE ServedAfterGet(served, cache_store, c, now)
    /\ UNCHANGED <<now, log_file, latest_links, link_history, access_token,
                   sched, fetch_calls, events>>

\* main.py:88-89: from cache import CACHE; CACHE.clear()
reload_token_store(store) ==
    IF "CACHE" \in CacheModuleNames THEN << >> ELSE store

reload_token_status ==
    IF "CACHE" \in CacheModuleNames THEN HTTP_OK ELSE HTTP_INTERNAL_ERROR

\* main.py:76-91: POST /admin/reload-token.  authorized: check_auth passes;
\* token: whether the reloaded environment holds an access token.
ReloadToken(authorized, token) ==
    /\ sched.phase # "startup"
    /\ IF authorized
       THEN /\ access_token' = token
            /\ cache_store' = reload_token_store(cache_store)
            /\ ret' = [op |-> "reload_token", channel |-> "", status |-> reload_token_status,
                       url |-> NoUrl]
       ELSE /\ ret' = [op |-> "reload_token", channel |-> "", status |-> HTTP_UNAUTHORIZED,
                       url |-> NoUrl]
            /\ UNCHANGED <<access_token, cache_store>>
    /\ served' = [k \in DOMAIN served \cap DOMAIN cache_store' |-> served[k]]
    /\ UNCHANGED <<now, log_file, latest_links, link_history, sched, fetch_calls>>

----------------------------------------------------------------------------
(* The service: the scheduler, its upstream and storage faults, and the     *)
(* token reload.                                                           *)

Init ==
    /\ now = 0
    /\ cache_store = << >>
    /\ log_file = NoFile
    /\ latest_links = << >>
    /\ link_history = << >>
    /\ access_token \in BOOLEAN
    /\ sched = [phase |-> "startup", idx |-> 1, cycle |-> 0]
    /\ fetch_calls = << >>
    /\ ret = NoRet
    /\ events = 0
    /\ served = << >>

Reload ==
    /\ events < MaxFaults
    /\ events' = events + 1
    /\ \E a \in BOOLEAN, tk \in BOOLEAN : ReloadToken(a, tk)

Next ==
    \/ StartupStep
    \/ RefreshStep
    \/ Wake
    \/ Reload

Spec == Init /\ [][Next]_vars

----------------------------------------------------------------------------
(* The cache under its readers: the clock, set_cached_url as the scheduler  *)
(* calls it, get_cached_url as a reader calls it, and the handlers.  It     *)
(* starts where the service is when startup_event has returned with no     *)
(* token configured: nothing cached, nothing logged.                        *)

SetChannels == {"ITV", "ITV2"}
ReaderChannels == {"ITV", "ITV2", "ITV3"}
TickSteps == {1, DEFAULT_VALIDITY}

CacheInit ==
    /\ now = 0
    /\ cache_store = << >>
    /\ log_file = NoFile
    /\ latest_links = << >>
    /\ link_history = << >>
    /\ access_token = FALSE
    /\ sched = [phase |-> "refresh", idx |-> 1, cycle |-> 0]
    /\ fetch_calls = [i \in 1..Len(CHANNELS) |-> [channel |-> CHANNELS[i], ok |-> FALSE]]
    /\ ret = NoRet
    /\ events = 0
    /\ served = << >>

\* wall-clock time passes
Tick(d) ==
    /\ events < MaxTicks
    /\ events' = events + 1
    /\ now' = now + d
    /\ UNCHANGED <<cache_store, log_file, latest_links, link_history,
                   access_token, sched, fetch_calls, ret, served>>

\* main.py:98,109: the scheduler stores a fetched locator
CacheSet(c, url) ==
    /\ cache_store' = set_cached_url(cache_store, c, url, now)
    /\ ret' = [op |-> "set_cached_url", channel |-> c, status |-> 0, url |-> url]
    /\ served' = ServedAfterSet(served, c)
    /\ UNCHANGED <<now, log_file, latest_links, link_history, access_token,
                   sched, fetch_calls, events>>

\* cache.py:26-34: a reader calls get_cached_url(c)
CacheGet(c) ==
    /\ HasEntry(cache_store, c) => cache_store[c].requests < MaxRequests
    /\ cache_store' = CountRequest(cache_store, c, now)
    /\ ret' = [op |-> "get_cached_url", channel |-> c, status |-> 0,
               url |-> CachedUrl(cache_store, c, now)]
    /\ served' = ServedAfterGet(served, cache_store, c, now)
    /\ UNCHANGED <<now, log_file, latest_links, link_history, access_token,
                   sched, fetch_calls, events>>

AdminReload ==
    /\ \E a \in BOOLEAN : ReloadToken(a, access_token)
    /\ UNCHANGED events

CacheNext ==
    \/ \E d \in TickSteps : Tick(d)
    \/ \E c \in SetChannels, url \in Locators : CacheSet(c, url)
    \/ \E c \in ReaderChannels : CacheGet(c)
    \/ \E c \in ReaderChannels : RedirectItv(c)
    \/ AdminReload

SpecCache == CacheInit /\ [][CacheNext]_vars

----------------------------------------------------------------------------
(* The cache of one channel under every shape of locator: an expiry         *)
(* parameter that is a number, one that is not, one that is empty, none;    *)
(* first or later in the query string, last or followed by another          *)
(* parameter.  Readers get and peek; the clock moves.                       *)

ExpKey == <<"e", "x", "p", "=">>
ExpSeparators == {<<"?">>, <<"&">>}
ExpValues == {<<"2">>, <<"2", "7">>, <<"2", "x">>, <<"x">>, << >>}
ExpTails == {<< >>, <<"&", "b">>}

MetaLocators ==
    {<<"a">> \o sep \o ExpKey \o value \o tail :
        sep \in ExpSeparators, value \in ExpValues, tail \in ExpTails}
        \cup {LocPlain}

MetaChannels == {"ITV", "ITV2"}

\* a reporting caller reads the entry of c through get_cached_meta
Peek(c) ==
    /\ ret' = [op |-> "get_cached_meta", channel |-> c, status |-> 0, url |-> NoUrl,
               result |-> get_cached_meta(cache_store, c)]
    /\ UNCHANGED <<now, cache_store, log_file, latest_links, link_history,
                   access_token, sched, fetch_calls, events, served>>

MetaNext ==
    \/ \E d \in TickSteps : Tick(d)
    \/ \E url \in MetaLocators : CacheSet("ITV", url)
    \/ \E c \in MetaChannels : CacheGet(c)
    \/ \E c \in MetaChannels : Peek(c)

SpecMeta == CacheInit /\ [][MetaNext]_vars

----------------------------------------------------------------------------
(* The ledger alone: log_change called again and again on a working store.  *)
(* A run starts from the ledger that n appends to the empty ledger leave,   *)
(* the k-th of them made at time k, so that a timestamp tells which append  *)
(* wrote an entry.                                                         *)

\* the file after the appends number lo..hi, made on file
RECURSIVE AppendRun(_, _, _)
AppendRun(file, lo, hi) ==
    IF lo > hi THEN file
    ELSE IF lo = hi
         THEN log_change(file, LogEntry(lo, "url_refresh", "ITV", UrlDetails(LocPlain)),
                         GoodIO)
         ELSE LET mid == (lo + hi) \div 2
                  first == AppendRun(file, lo, mid)
              IN  \* the test has TLC evaluate the first half before the second
                  IF first.status = "missing"
                  THEN AppendRun(NoFile, mid + 1, hi)
                  ELSE AppendRun(first, mid + 1, hi)

Prefill(n) == AppendRun(NoFile, 1, n)

PrefillSizes == {0, LOG_CAPACITY - 2, LOG_CAPACITY - 1, LOG_CAPACITY}

LedgerInit ==
    /\ \E n \in PrefillSizes : now = n /\ log_file = Prefill(n)
    /\ cache_store = << >>
    /\ latest_links = << >>
    /\ link_history = << >>
    /\ access_token = TRUE
    /\ sched = [phase |-> "startup", idx |-> 1, cycle |-> 0]
    /\ fetch_calls = << >>
    /\ ret = NoRet
    /\ events = 0
    /\ served = << >>

\* change_log.py:14-47: one more log_change call, a clock step after the last
LedgerAppend(event_type, channel) ==
    /\ events < MaxAppends
    /\ events' = events + 1
    /\ now' = now + 1
    /\ log_file' = log_change(log_file, LogEntry(now + 1, event_type, channel, ErrorDetails),
                              GoodIO)
    /\ UNCHANGED <<cache_store, latest_links, link_history, access_token,
                   sched, fetch_calls, ret, served>>

\* change_log.py:18-19: url events carry a channel name, token events "ALL"
LedgerEvents ==
    {<<"url_refresh", "ITV">>, <<"url_error", "ITV">>,
     <<"token_refresh", "ALL">>, <<"token_error", "ALL">>}

LedgerNext == \E ev \in LedgerEvents : LedgerAppend(ev[1], ev[2])

SpecLedger == LedgerInit /\ [][LedgerNext]_vars

----------------------------------------------------------------------------
(* The scheduler for ever, over a ledger store that is never healthy: at    *)
(* every log_change call the file cannot be read (and is written anew) or   *)
(* cannot be written.  The upstream answers every fetch as it likes; there  *)
(* is no budget of faults.  Fetches fail with every exception they can      *)
(* raise, and succeed when only the read failed.  To keep the states        *)
(* finite, cycles after the first MaxCycles are not told apart (the cycle   *)
(* counter stays at its bound) and the clock is not advanced: the loop      *)
(* reads it only to stamp entries, never to decide a step.  Every fetch     *)
(* returns or raises and every sleep ends: weak fairness of the             *)
(* scheduler's steps.                                                       *)

LiveInputs(token, c) ==
    {x \in FetchInputs(token, c) :
        /\ token => x.io1 # GoodIO
        /\ UsesSecondLog(token, x.up, x.io1) => x.io2 # GoodIO}

LiveInit == Init

\* main.py:93-102
LiveStartupStep ==
    /\ sched.phase = "startup"
    /\ \E x \in LiveInputs(access_token, CHANNELS[sched.idx]) : CycleEffect(x)
    /\ UNCHANGED events

\* main.py:104-112
LiveRefreshStep ==
    /\ sched.phase = "refresh"
    /\ \E x \in LiveInputs(access_token, CHANNELS[sched.idx]) : CycleEffect(x)
    /\ UNCHANGED events

\* main.py:113, the sleep is over
LiveWake ==
    /\ sched.phase = "sleep"
    /\ sched' = [phase |-> "refresh", idx |-> 1,
                 cycle |-> IF sched.cycle < MaxCycles THEN sched.cycle + 1 ELSE sched.cycle]
    /\ UNCHANGED <<now, cache_store, log_file, latest_links, link_history,
                   access_token, fetch_calls, ret, events, served>>

LiveNext ==
    \/ LiveStartupStep
    \/ LiveRefreshStep
    \/ LiveWake

SpecLive ==
    /\ LiveInit
    /\ [][LiveNext]_vars
    /\ WF_vars(LiveStartupStep)
    /\ WF_vars(LiveRefreshStep)
    /\ WF_vars(LiveWake)

----------------------------------------------------------------------------
(* The reporting side: the ledger queries of change_log.py as the /logs and *)
(* /stats handlers call them, and the health check, over a ledger that      *)
(* log_change calls and health checks fill.  A run starts with no log file, *)
(* with a log file that cannot be parsed, or with the ledger that twenty    *)
(* url_refresh appends of one channel leave.                                *)

MaxEntries == 4      \* appends and health checks per run of the reporting side

HEALTH_EXCERPT_LEN == 100

\* main.py:58-74: GET /health.  The handler fetches a locator for "ITV"; the
\* except branch returns the tuple (dict, 503), which the framework encodes
\* as the body of a 200 answer.
health_check_response(r) ==
    [op |-> "health_check", channel |-> "ITV", status |-> HTTP_OK,
     url |-> SubSeq(r.url, 1, IF Len(r.url) < HEALTH_EXCERPT_LEN
                              THEN Len(r.url) ELSE HEALTH_EXCERPT_LEN),
     result |-> IF r.ok THEN "healthy" ELSE "unhealthy"]

HealthCheck(x) ==
    LET r == fetch_stream_url(log_file, access_token, "ITV", x.up, x.io1, x.io2, now)
    IN  /\ sched.phase # "startup"
        /\ log_file' = r.file
        /\ ret' = health_check_response(r)
        /\ UNCHANGED <<now, cache_store, latest_links, link_history, access_token,
                       sched, fetch_calls, served>>

\* main.py:122,129: get_logs(100), get_logs(200); any limit may be asked of
\* change_log.get_logs
ViewLogs(limit) ==
    /\ ret' = [op |-> "get_logs", channel |-> NoChannel, status |-> limit, url |-> NoUrl,
               result |-> get_logs(log_file, limit)]
    /\ UNCHANGED <<now, cache_store, log_file, latest_links, link_history,
                   access_token, sched, fetch_calls, events, served>>

\* main.py:138,154
TokenHistory ==
    /\ ret' = [op |-> "get_token_history", channel |-> NoChannel, status |-> 0,
               url |-> NoUrl, result |-> get_token_history(log_file)]
    /\ UNCHANGED <<now, cache_store, log_file, latest_links, link_history,
                   access_token, sched, fetch_calls, events, served>>

\* main.py:141,155, and get_url_history() with its default channel
UrlHistory(channel) ==
    /\ ret' = [op |-> "get_url_history", channel |-> channel, status |-> 0,
               url |-> NoUrl, result |-> get_url_history(log_file, channel)]
    /\ UNCHANGED <<now, cache_store, log_file, latest_links, link_history,
                   access_token, sched, fetch_calls, events, served>>

CorruptFile == [status |-> "corrupt", logs |-> << >>]

ReportsInit ==
    /\ \/ now = 0 /\ log_file \in {NoFile, CorruptFile}
       \/ now = URL_HISTORY_LEN /\ log_file = Prefill(URL_HISTORY_LEN)
    /\ cache_store = << >>
    /\ latest_links = << >>
    /\ link_history = << >>
    /\ access_token = TRUE
    /\ sched = [phase |-> "sleep", idx |-> 1, cycle |-> 0]
    /\ fetch_calls = [i \in 1..Len(CHANNELS) |-> [channel |-> CHANNELS[i], ok |-> FALSE]]
    /\ ret = NoRet
    /\ events = 0
    /\ served = << >>

\* change_log.py:14-47: a log_change call, hours whole hours after the last
\* event
ReportAppend(event_type, channel, hours) ==
    /\ events < MaxEntries
    /\ events' = events + 1
    /\ now' = now + hours * SECONDS_PER_HOUR
    /\ log_file' = log_change(log_file, LogEntry(now', event_type, channel, ErrorDetails),
                              GoodIO)
    /\ ret' = [op |-> "log_change", channel |-> channel, status |-> 0, url |-> NoUrl]
    /\ UNCHANGED <<cache_store, latest_links, link_history, access_token,
                   sched, fetch_calls, served>>

ReportHealth ==
    /\ events < MaxEntries
    /\ events' = events + 1
    /\ \E up \in Upstream("ITV") : HealthCheck([up |-> up, io1 |-> GoodIO, io2 |-> GoodIO])

\* change_log.py:18-19; token refreshes lie two or three hours apart
ReportEvents ==
    {<<"token_refresh", "ALL", 2>>, <<"token_refresh", "ALL", 3>>,
     <<"url_refresh", "ITV2", 1>>}

ReportLimits == {0, 1, 2, 100}
ReportChannels == {NoChannel, "ITV", "ITV2"}

ReportsNext ==
    \/ \E ev \in ReportEvents : ReportAppend(ev[1], ev[2], ev[3])
    \/ ReportHealth
    \/ \E limit \in ReportLimits : ViewLogs(limit)
    \/ TokenHistory
    \/ \E c \in ReportChannels : UrlHistory(c)

SpecReports == ReportsInit /\ [][ReportsNext]_vars

----------------------------------------------------------------------------
(* The ledger shared by its writers and its readers.  log_change and        *)
(* get_logs are synchronous functions with no await, called from           *)
(* coroutines of one event loop: a call runs from its first line to its    *)
(* last before another coroutine runs, so the calls are the steps that     *)
(* interleave.  A run starts from no ledger or from one an entry short of   *)
(* its capacity.                                                           *)

SharedLimits == {LOG_CAPACITY}

SharedInit == LedgerInit /\ now \in {0, LOG_CAPACITY - 1}

SharedNext ==
    \/ \E ev \in LedgerEvents : LedgerAppend(ev[1], ev[2])
    \/ \E limit \in SharedLimits : ViewLogs(limit)
    \/ UrlHistory("ITV")
    \/ TokenHistory

SpecShared == SharedInit /\ [][SharedNext]_vars

----------------------------------------------------------------------------
(* The link history tracker alone: record_link called again and again, as   *)
(* auto_check_loop of dashboard.py calls it.                                *)

MaxRecords == 4      \* record_link calls per run of the tracker

LinkChannels == {"ITV", "ITV2"}
LinkSteps == {0, 1}

LinksInit ==
    /\ now = 0
    /\ cache_store = << >>
    /\ log_file = NoFile
    /\ latest_links = << >>
    /\ link_history = << >>
    /\ access_token = TRUE
    /\ sched = [phase |-> "startup", idx |-> 1, cycle |-> 0]
    /\ fetch_calls = << >>
    /\ ret = NoRet
    /\ events = 0
    /\ served = << >>

\* dashboard.py:18-27: record_link(c, url), d seconds after the last call
RecordLink(c, url, d) ==
    /\ events < MaxRecords
    /\ events' = events + 1
    /\ now' = now + d
    /\ latest_links' = record_link_latest(latest_links, c, url)
    /\ link_history' = record_link_history(latest_links, link_history, c, url, now')
    /\ ret' = [op |-> "record_link", channel |-> c, status |-> 0, url |-> url]
    /\ UNCHANGED <<cache_store, log_file, access_token, sched, fetch_calls, served>>

LinksNext == \E c \in LinkChannels, url \in Locators, d \in LinkSteps : RecordLink(c, url, d)

SpecLinks == LinksInit /\ [][LinksNext]_vars

----------------------------------------------------------------------------
(* The channels side by side: the scheduler's steps over CHANNELS, and,     *)
(* once startup_event has returned, readers of the cache and calls of       *)
(* record_link with the locator of the channel.  The ledger store works:    *)
(* the faults of a run are those of the upstream.                          *)

\* main.py:93-113: one iteration of the for loop of either coroutine
ChannelStep ==
    /\ sched.phase \in {"startup", "refresh"}
    /\ \E x \in FetchInputs(access_token, CHANNELS[sched.idx]) :
            /\ x.io1 = GoodIO
            /\ x.io2 = GoodIO
            /\ CycleStep(x)

\* dashboard.py:18-27: record_link(c, url) at the present time
ChannelRecord(c, url) ==
    /\ sched.phase # "startup"
    /\ latest_links' = record_link_latest(latest_links, c, url)
    /\ link_history' = record_link_history(latest_links, link_history, c, url, now)
    /\ UNCHANGED <<now, cache_store, log_file, access_token, sched, fetch_calls,
                   ret, events, served>>

\* cache.py:26-34: a reader calls get_cached_url(c)
ChannelGet(c) ==
    /\ sched.phase # "startup"
    /\ CacheGet(c)

ChannelsNext ==
    \/ ChannelStep
    \/ \E c \in SetChannels : ChannelGet(c)
    \/ \E c \in LinkChannels : ChannelRecord(c, LocatorOf(c))

SpecChannels == Init /\ [][ChannelsNext]_vars

----------------------------------------------------------------------------
(* Properties *)

\* a step of the scheduler's for loop, and its outcome
SchedulerStep == StartupStep \/ RefreshStep
LastCall(calls) == calls[Len(calls)]

\* C1: under any interleaving of gets, sets and clock steps, get(c) returns a
\* locator only if an entry for c exists and now < its expiry, and then the
\* locator of the most recent set(c, .); otherwise it returns absent.  Stated
\* step by step: a get answers from the entry it finds exactly when that
\* entry is unexpired, a set leaves its locator (and that locator's expiry)
\* in the entry, and nothing but a set of c changes the locator or expiry of
\* the entry of c.
C1_GetReturnsFreshLatest ==
    [][/\ \A c \in ReaderChannels :
            CacheGet(c) =>
                /\ (ret'.url # NoUrl) <=>
                       (c \in DOMAIN cache_store /\ now < cache_store[c].expiry)
                /\ (ret'.url # NoUrl) => ret'.url = cache_store[c].url
       /\ \A c \in SetChannels, url \in Locators :
            CacheSet(c, url) =>
                /\ cache_store'[c].url = url
                /\ cache_store'[c].expiry = IF url = LocExp THEN 2 ELSE now + DEFAULT_VALIDITY
       /\ \A c \in DOMAIN cache_store' :
            (\/ c \notin DOMAIN cache_store
             \/ cache_store'[c].url # cache_store[c].url
             \/ cache_store'[c].expiry # cache_store[c].expiry)
                => \E url \in Locators : CacheSet(c, url)
       /\ DOMAIN cache_store \subseteq DOMAIN cache_store'
      ]_vars

\* C1 witness: a get has just missed on an entry that served a reader before
\* it expired
C1_Witness ==
    /\ ret.op = "get_cached_url"
    /\ ret.url = NoUrl
    /\ ret.channel \in DOMAIN cache_store
    /\ cache_store[ret.channel].requests >= 1
    /\ now >= cache_store[ret.channel].expiry

\* C2: requestCount counts the cache hits since the most recent set: every
\* set leaves it 0 (a set of the locator already cached too), every hit adds
\* exactly 1 to the entry read and changes nothing else, a miss changes no
\* cache state, and no other operation changes the cache.
C2_RequestCount ==
    [][/\ \A c \in SetChannels, url \in Locators :
            CacheSet(c, url) => cache_store'[c].requests = 0
       /\ \A c \in ReaderChannels :
            CacheGet(c) =>
                IF ret'.url # NoUrl
                THEN /\ DOMAIN cache_store' = DOMAIN cache_store
                     /\ cache_store'[c] =
                            [cache_store[c] EXCEPT !.requests = cache_store[c].requests + 1]
                     /\ \A d \in DOMAIN cache_store \ {c} : cache_store'[d] = cache_store[d]
                ELSE cache_store' = cache_store
       /\ (cache_store' # cache_store) =>
            \/ \E c \in SetChannels, url \in Locators : CacheSet(c, url)
            \/ \E c \in ReaderChannels : CacheGet(c)
      ]_vars

\* C2 witness: one entry was hit twice; another, set after the clock had
\* moved, still counts no hit after a get has just missed on it
C2_Witness ==
    /\ "ITV" \in DOMAIN cache_store
    /\ cache_store["ITV"].requests = 2
    /\ "ITV2" \in DOMAIN cache_store
    /\ cache_store["ITV2"].requests = 0
    /\ cache_store["ITV2"].validity < cache_store["ITV2"].expiry
    /\ ret = [op |-> "get_cached_url", channel |-> "ITV2", status |-> 0, url |-> NoUrl]

\* C3: in every cycle the scheduler calls fetch once per channel, in the
\* order of CHANNELS, whether or not an earlier fetch of the cycle failed:
\* the calls of the cycle so far are always the channels before the
\* scheduler's position, and a cycle ends only with all of them called.
C3_EveryChannelInOrder ==
    /\ \A i \in 1..Len(fetch_calls) :
            i <= Len(CHANNELS) /\ fetch_calls[i].channel = CHANNELS[i]
    /\ sched.idx \in 1..Len(CHANNELS)
    /\ sched.idx > 1 => Len(fetch_calls) = sched.idx - 1
    /\ sched.idx = 1 =>
            Len(fetch_calls) =
                IF sched.phase = "startup" THEN 0 ELSE Len(CHANNELS)

\* C3 witness: a cycle ran to its end although the fetch of its first channel
\* failed and the fetch of a later one succeeded
C3_Witness ==
    /\ sched.phase = "sleep"
    /\ Len(fetch_calls) = Len(CHANNELS)
    /\ ~fetch_calls[1].ok
    /\ fetch_calls[Len(CHANNELS)].ok

\* C4: a scheduler step whose fetch fails leaves the cache (the entry of the
\* channel with its locator, expiry, validity and requestCount) and the link
\* history as they were, and get(c) would return what it returned before.
C4_FailureKeepsEntry ==
    [][(SchedulerStep /\ ~LastCall(fetch_calls').ok) =>
            /\ cache_store' = cache_store
            /\ latest_links' = latest_links
            /\ link_history' = link_history
            /\ CachedUrl(cache_store', CHANNELS[sched.idx], now')
                   = CachedUrl(cache_store, CHANNELS[sched.idx], now)
      ]_vars

\* C4 witness: the last fetch failed for a channel whose cached locator is
\* still fresh
C4_Witness ==
    /\ fetch_calls # << >>
    /\ ~LastCall(fetch_calls).ok
    /\ CachedUrl(cache_store, LastCall(fetch_calls).channel, now) # NoUrl

\* the fetch inputs of the current scheduler step in which the ledger store
\* works
GoodStorageInputs ==
    {x \in FetchInputs(access_token, CHANNELS[sched.idx]) :
        x.io1 = GoodIO /\ x.io2 = GoodIO}

IsUrlEntry(e, event_type, c) == e.event_type = event_type /\ e.channel = c

\* C5: in a cycle where the fetch of one channel succeeded and the fetch of a
\* later channel fails (non-200 status, network or parse exception, or
\* missing credentials), the failing step appends exactly one url_error
\* entry for its channel and nothing else, as a succeeding step appends
\* exactly one url_refresh entry for its channel and nothing else.
C5_OneEntryPerOutcome ==
    [][\A x \in GoodStorageInputs :
            (/\ SchedulerStep
             /\ CycleStep(x)
             /\ sched.idx > 1
             /\ \E i \in 1..Len(fetch_calls) : fetch_calls[i].ok)
            => /\ Len(Ledger') = Len(Ledger) + 1
               /\ SubSeq(Ledger', 1, Len(Ledger)) = Ledger
               /\ IsUrlEntry(Ledger'[Len(Ledger')],
                             IF LastCall(fetch_calls').ok THEN "url_refresh" ELSE "url_error",
                             CHANNELS[sched.idx])
      ]_vars

\* C6: when a scheduler step with a successful fetch ends, the cache entry of
\* the channel, the latest locator of its link history and the newest ledger
\* entry (a url_refresh of the channel) all carry the fetched locator.
C6_SuccessUpdatesAllThree ==
    [][\A x \in GoodStorageInputs :
            (SchedulerStep /\ CycleStep(x) /\ access_token /\ x.up.kind = "ok")
            => LET c == CHANNELS[sched.idx]
               IN  /\ c \in DOMAIN cache_store'
                   /\ cache_store'[c].url = x.up.url
                   /\ Ledger' # << >>
                   /\ IsUrlEntry(Ledger'[Len(Ledger')], "url_refresh", c)
                   /\ Ledger'[Len(Ledger')].details.url = x.up.url
                   /\ c \in DOMAIN latest_links'
                   /\ latest_links'[c] = x.up.url
      ]_vars

\* C7: the ledger never holds more than 1000 entries, and appending past
\* capacity evicts oldest first: with the k-th append made at time k, the
\* ledger holds the last min(now, 1000) appends in append order, so that
\* once 1001 entries were appended the first is gone and the last is there.
C7_BoundedFifo ==
    /\ Len(Ledger) <= LOG_CAPACITY
    /\ Len(Ledger) = (IF now < LOG_CAPACITY THEN now ELSE LOG_CAPACITY)
    /\ \A i \in 1..Len(Ledger) : Ledger[i].timestamp = now - Len(Ledger) + i
    /\ now > LOG_CAPACITY =>
            /\ \A i \in 1..Len(Ledger) : Ledger[i].timestamp # 1
            /\ Ledger[Len(Ledger)].timestamp = now

\* C7 witness: 1001 entries were appended to the empty ledger, the last three
\* by steps of the run
C7_Witness ==
    /\ now = LOG_CAPACITY + 1
    /\ events = 3
    /\ Len(Ledger) = LOG_CAPACITY
    /\ Ledger[1].timestamp = 2

\* C8: when an authorized reload-token request has completed, get(c) returns
\* absent for every channel that was cached before it.
C8_ReloadClearsCache ==
    [][ReloadToken(TRUE, access_token) =>
            \A c \in DOMAIN cache_store : CachedUrl(cache_store', c, now') = NoUrl
      ]_vars

\* C9: GET /itvx for channel c answers 503 whenever get(c) is absent and
\* otherwise a 302 redirect to exactly the cached locator, never an internal
\* error.
C9_RedirectOrUnavailable ==
    [][\A c \in ReaderChannels :
            RedirectItv(c) =>
                IF CachedUrl(cache_store, c, now) = NoUrl
                THEN ret'.status = HTTP_UNAVAILABLE
                ELSE /\ ret'.status = HTTP_FOUND
                     /\ ret'.url = CachedUrl(cache_store, c, now)
      ]_vars

\* C10: when the upstream fetch of a scheduler step returns a locator and
\* the ledger write fails, the locator is still stored in the cache and the
\* scheduler goes on to the next channel.
C10_LedgerFailureKeepsCacheWrite ==
    [][\A x \in FetchInputs(access_token, CHANNELS[sched.idx]) :
            (/\ SchedulerStep
             /\ CycleStep(x)
             /\ access_token
             /\ x.up.kind = "ok"
             /\ LogRaises(x.io1))
            => /\ cache_store' = set_cached_url(cache_store, CHANNELS[sched.idx], x.up.url, now)
               /\ sched' # sched
      ]_vars

\* the token_refresh entries of the ledger, oldest first
TokenEntries == EventsOfType(Ledger, "token_refresh")

\* C11: tokenRefreshStats() returns absent exactly when the ledger holds no
\* token_refresh entry; when it holds exactly one, the result is present with
\* count 1, mean, min and max gap zero, and the timestamp of that entry as
\* the last refresh.
C11_TokenStatsPresence ==
    ret.op = "get_token_history" =>
        /\ (ret.result = None) <=> (TokenEntries = << >>)
        /\ Len(TokenEntries) = 1 =>
                /\ ret.result # None
                /\ ret.result.total_refreshes = 1
                /\ IsRatio(ret.result.avg_hours_between, 0, 1)
                /\ IsRatio(ret.result.min_hours, 0, 1)
                /\ IsRatio(ret.result.max_hours, 0, 1)
                /\ ret.result.last_refresh = TokenEntries[1].timestamp

\* the ledger holds exactly three token_refresh entries, at t, t + 2h, t + 5h
TokenEntriesAt025 ==
    /\ Len(TokenEntries) = 3
    /\ TokenEntries[2].timestamp = TokenEntries[1].timestamp + 2 * SECONDS_PER_HOUR
    /\ TokenEntries[3].timestamp = TokenEntries[1].timestamp + 5 * SECONDS_PER_HOUR

\* C12 as stated: with token_refresh entries at t, t + 2h and t + 5h (other
\* event types interleaved) tokenRefreshStats() returns count 3, mean gap
\* 3.5 hours, min gap 2, max gap 3 and last refresh t + 5h.
C12_StatsMean35 ==
    (ret.op = "get_token_history" /\ TokenEntriesAt025) =>
        /\ ret.result # None
        /\ ret.result.total_refreshes = 3
        /\ IsRatio(ret.result.avg_hours_between, 7, 2)
        /\ IsRatio(ret.result.min_hours, 2, 1)
        /\ IsRatio(ret.result.max_hours, 3, 1)
        /\ ret.result.last_refresh = TokenEntries[1].timestamp + 5 * SECONDS_PER_HOUR

\* C12 amended: with token_refresh entries at t, t + 2h and t + 5h (other
\* event types interleaved) tokenRefreshStats() returns count 3, mean gap
\* 2.5 hours (the mean of the adjacent gaps 2 and 3), min gap 2, max gap 3
\* and last refresh t + 5h.
C12_StatsMean25 ==
    (ret.op = "get_token_history" /\ TokenEntriesAt025) =>
        /\ ret.result # None
        /\ ret.result.total_refreshes = 3
        /\ IsRatio(ret.result.avg_hours_between, 5, 2)
        /\ IsRatio(ret.result.min_hours, 2, 1)
        /\ IsRatio(ret.result.max_hours, 3, 1)
        /\ ret.result.last_refresh = TokenEntries[1].timestamp + 5 * SECONDS_PER_HOUR

\* C12 witness: the statistics were just computed over token refreshes at
\* t, t + 2h and t + 5h with an entry of another type between two of them
C12_Witness ==
    /\ ret.op = "get_token_history"
    /\ TokenEntriesAt025
    /\ \E i, j, k \in 1..Len(Ledger) :
            /\ i < j /\ j < k
            /\ Ledger[i].event_type = "token_refresh"
            /\ Ledger[j].event_type # "token_refresh"
            /\ Ledger[k].event_type = "token_refresh"

\* the history of a channel, empty when nothing was recorded for it
HistoryOf(c) == IF c \in DOMAIN link_history THEN link_history[c] ELSE << >>

\* C13: record(c, u) called twice in a row with the same u appends exactly
\* one record (the second call changes neither the history nor the latest
\* locator); every call appends one record when u differs from the latest
\* locator of c and none otherwise; and always no two consecutive records of
\* a channel carry the same locator and latest(c) is the locator of the last
\* record of c.
C13_RecordIdempotent ==
    /\ [](\A c \in LinkChannels :
            /\ \A i \in 1..(Len(HistoryOf(c)) - 1) :
                    HistoryOf(c)[i].url # HistoryOf(c)[i + 1].url
            /\ (c \in DOMAIN latest_links) <=> (HistoryOf(c) # << >>)
            /\ c \in DOMAIN latest_links =>
                    latest_links[c] = HistoryOf(c)[Len(HistoryOf(c))].url)
    /\ [][\A c \in LinkChannels, u \in Locators, d \in LinkSteps :
            RecordLink(c, u, d) =>
                /\ (ret.op = "record_link" /\ ret.channel = c /\ ret.url = u) =>
                        /\ link_history' = link_history
                        /\ latest_links' = latest_links
                /\ Len(link_history'[c]) =
                        Len(HistoryOf(c))
                            + (IF c \in DOMAIN latest_links /\ latest_links[c] = u
                               THEN 0 ELSE 1)
                /\ link_history'[c][Len(link_history'[c])].url = u
                /\ \A k \in DOMAIN link_history \ {c} : link_history'[k] = link_history[k]
       ]_vars

\* C13 witness: two calls were made, both for ITV (no other channel has a
\* record), and the history of ITV holds one record: the second call
\* repeated the locator of the first
C13_Witness ==
    /\ events = 2
    /\ DOMAIN link_history = {"ITV"}
    /\ Len(link_history["ITV"]) = 1
    /\ ret.op = "record_link"
    /\ ret.url = latest_links["ITV"]

\* the text of the query parameter exp of a locator: what follows the first
\* "?exp=" or "&exp=" up to the next "&" or the end of the locator
HasExpParam(url) ==
    \E i \in 1..Len(url) :
        /\ i + 4 <= Len(url)
        /\ url[i] \in {"?", "&"}
        /\ SubSeq(url, i + 1, i + 4) = ExpKey

ExpParamText(url) ==
    LET i == CHOOSE k \in 1..Len(url) :
                 /\ k + 4 <= Len(url)
                 /\ url[k] \in {"?", "&"}
                 /\ SubSeq(url, k + 1, k + 4) = ExpKey
                 /\ \A m \in 1..(k - 1) :
                        ~(m + 4 <= Len(url) /\ url[m] \in {"?", "&"}
                          /\ SubSeq(url, m + 1, m + 4) = ExpKey)
        stops == {j \in (i + 5)..Len(url) : url[j] = "&"}
        last == IF stops = {} THEN Len(url)
                ELSE (CHOOSE j \in stops : \A m \in stops : j <= m) - 1
    IN  SubSeq(url, i + 5, last)

IsIntegerText(txt) == txt # << >> /\ \A k \in 1..Len(txt) : txt[k] \in Digits

\* C14: extract_expiry always produces a value: for a locator whose expiry
\* parameter is an integer E the entry set for it expires at exactly E, and
\* for a locator whose expiry parameter is absent or is not an integer the
\* entry expires at now + 3600.
C14_ExpiryOrDefault ==
    [][\A url \in MetaLocators :
            CacheSet("ITV", url) =>
                cache_store'["ITV"].expiry =
                    IF HasExpParam(url) /\ IsIntegerText(ExpParamText(url))
                    THEN ParseInt(ExpParamText(url))
                    ELSE now + DEFAULT_VALIDITY
      ]_vars

\* C19: peek(c) returns the stored entry of c, or an empty record when there
\* is none; an entry that has expired and was not replaced is returned like
\* any other; and the call changes neither requestCount nor any other part
\* of the cache, nor what get(c) would return.
C19_PeekReadsOnly ==
    [][\A c \in MetaChannels :
            Peek(c) =>
                /\ c \in DOMAIN cache_store => ret'.result = cache_store[c]
                /\ c \notin DOMAIN cache_store => ret'.result = EmptyMeta
                /\ (c \in DOMAIN cache_store /\ cache_store[c].expiry <= now) =>
                        /\ ret'.result.url = cache_store[c].url
                        /\ ret'.result.requests = cache_store[c].requests
                /\ cache_store' = cache_store
                /\ served' = served
                /\ CachedUrl(cache_store', c, now') = CachedUrl(cache_store, c, now)
      ]_vars

\* C19 witness: a peek has just returned an entry that served a reader and
\* has expired since
C19_Witness ==
    /\ ret.op = "get_cached_meta"
    /\ ret.channel \in DOMAIN cache_store
    /\ cache_store[ret.channel].requests >= 1
    /\ cache_store[ret.channel].expiry <= now
    /\ ret.result = cache_store[ret.channel]

\* the entries stored in the log file, none when it is missing or unreadable
StoredEntries == IF log_file.status = "ok" THEN log_file.logs ELSE << >>

\* the last n elements of q, all of them when q is shorter
LastN(q, n) == [k \in 1..(IF n < Len(q) THEN n ELSE Len(q)) |->
                    q[Len(q) - (IF n < Len(q) THEN n ELSE Len(q)) + k]]

\* C15: for every limit >= 0 and every ledger, recent(limit) returns exactly
\* the last min(limit, size) entries in append order; recent(0) is empty, and
\* a missing or unreadable log yields the empty sequence.
C15_RecentLastLimit ==
    ret.op = "get_logs" =>
        /\ ret.result = LastN(StoredEntries, ret.status)
        /\ ret.status = 0 => ret.result = << >>
        /\ log_file.status # "ok" => ret.result = << >>

\* the positions of the ledger that hold a url_refresh entry, of channel ch
\* when one is given
UrlRefreshPositions(ch) ==
    {i \in 1..Len(StoredEntries) :
        /\ StoredEntries[i].event_type = "url_refresh"
        /\ ch # NoChannel => StoredEntries[i].channel = ch}

\* C16: urlHistory(channel?) returns the last 20 url_refresh entries of the
\* ledger (of the given channel when one is given), all of them if there are
\* fewer, in chronological order; no url_error or token entry and no entry
\* of another channel is in the result.
C16_UrlHistoryLast20 ==
    ret.op = "get_url_history" =>
        LET M == UrlRefreshPositions(ret.channel)
            n == IF Cardinality(M) < URL_HISTORY_LEN THEN Cardinality(M) ELSE URL_HISTORY_LEN
        IN  /\ Len(ret.result) = n
            /\ \A k \in 1..n :
                    ret.result[k] =
                        StoredEntries[CHOOSE i \in M : Cardinality({j \in M : j > i}) = n - k]
            /\ \A k \in 1..Len(ret.result) :
                    /\ ret.result[k].event_type = "url_refresh"
                    /\ ret.channel # NoChannel => ret.result[k].channel = ret.channel

\* C16 witness: the history of ITV was just read from a ledger that holds
\* more than 20 url_refresh entries of ITV, a url_refresh of another channel
\* and an entry that is no url_refresh
C16_Witness ==
    /\ ret.op = "get_url_history"
    /\ ret.channel = "ITV"
    /\ Cardinality(UrlRefreshPositions("ITV")) > URL_HISTORY_LEN
    /\ Len(ret.result) = URL_HISTORY_LEN
    /\ \E i \in 1..Len(StoredEntries) : StoredEntries[i].event_type # "url_refresh"
    /\ \E i \in UrlRefreshPositions(NoChannel) : StoredEntries[i].channel # "ITV"

\* C17: no reader-facing, reporting or health operation changes the channel
\* cache, the link history or the change ledger: their only writers are the
\* refresh scheduler's cycle and the administrative clear.
C17_ReadersOnlyRead ==
    [][(\/ ReportHealth
        \/ \E limit \in ReportLimits : ViewLogs(limit)
        \/ TokenHistory
        \/ \E c \in ReportChannels : UrlHistory(c))
       => /\ cache_store' = cache_store
          /\ latest_links' = latest_links
          /\ link_history' = link_history
          /\ log_file' = log_file
      ]_vars

\* C20: under any interleaving of get(c) calls with each other and with the
\* scheduler's set(c, .), no increment is lost (requestCount of an entry is
\* the number of locators get returned from it since it was set) and no
\* entry is torn: its locator, expiry and validity come from one set, and
\* the locator a get returned is the locator of the entry it counted on.
C20_AtomicGetSet ==
    /\ DOMAIN served = DOMAIN cache_store
    /\ \A c \in DOMAIN cache_store :
            /\ cache_store[c].requests = served[c]
            /\ cache_store[c].url \in Locators
            /\ cache_store[c].url = LocExp => cache_store[c].expiry = 2
            /\ cache_store[c].url = LocPlain => cache_store[c].validity = DEFAULT_VALIDITY
            /\ cache_store[c].expiry - cache_store[c].validity \in 0..now
    /\ (ret.op = "get_cached_url" /\ ret.url # NoUrl) =>
            /\ ret.channel \in DOMAIN cache_store
            /\ ret.url = cache_store[ret.channel].url
            /\ cache_store[ret.channel].requests >= 1

\* C20 witness: two gets were served from the entry of ITV while another
\* channel was set and read as well
C20_Witness ==
    /\ "ITV" \in DOMAIN cache_store
    /\ cache_store["ITV"].requests = 2
    /\ served["ITV"] = 2
    /\ "ITV2" \in DOMAIN cache_store
    /\ cache_store["ITV2"].requests = 1
    /\ ret.op = "get_cached_url"
    /\ ret.channel = "ITV"
    /\ ret.url # NoUrl

\* the scheduler fetches for channel c
Attempt(c) ==
    /\ LiveStartupStep \/ LiveRefreshStep
    /\ CHANNELS[sched.idx] = c
    /\ sched'.phase # "crashed"

\* C18: with every fetch returning or raising and the scheduler scheduled
\* fairly, the refresh loop never terminates or crashes (no fetch failure
\* leaves a cycle), and every configured channel is attempted again and
\* again, in infinitely many cycles.
C18_LoopNeverStops ==
    /\ [](sched.phase \in {"startup", "refresh", "sleep"})
    /\ \A c \in ChannelSet : []<><<Attempt(c)>>_vars

\* C18 witness: the loop sleeps after a cycle later than the first, in which
\* a fetch succeeded and a later fetch failed, with the ledger file left
\* unreadable by a failed write
C18_Witness ==
    /\ sched.phase = "sleep"
    /\ sched.cycle >= 1
    /\ \E i, j \in 1..Len(fetch_calls) : i < j /\ fetch_calls[i].ok /\ ~fetch_calls[j].ok
    /\ log_file.status = "corrupt"

\* the url_refresh entries of channel c in the ledger, oldest first
UrlEntriesOf(c) ==
    SelectSeq(StoredEntries, LAMBDA l : l.event_type = "url_refresh" /\ l.channel = c)

\* the time of the latest token_refresh entry of the ledger, which holds one
LastTokenTime ==
    LET P == {i \in 1..Len(StoredEntries) : StoredEntries[i].event_type = "token_refresh"}
    IN  StoredEntries[CHOOSE i \in P : \A j \in P : j <= i].timestamp

\* C21: under any interleaving of ledger appends with each other and with
\* ledger reads, an append and its truncation are one step: no reader sees
\* an empty, partial or over-capacity list (the file is whole at every point
\* a reader can run, and a read returns the last entries of the whole list),
\* and no append is lost: after an append the ledger is what it was, plus
\* the new entry, less the oldest entries evicted for capacity.
C21_AppendAtomic ==
    /\ [](/\ log_file.status \in {"ok", "missing"}
          /\ log_file.status = "missing" => now = 0
          /\ Len(StoredEntries) <= LOG_CAPACITY
          /\ now > 0 => StoredEntries # << >>)
    /\ [][ /\ \A ev \in LedgerEvents :
                LedgerAppend(ev[1], ev[2]) =>
                    /\ StoredEntries' =
                           LastN(Append(StoredEntries,
                                        LogEntry(now', ev[1], ev[2], ErrorDetails)),
                                 LOG_CAPACITY)
                    /\ log_file'.status = "ok"
           /\ \A limit \in SharedLimits :
                (events' = events /\ ViewLogs(limit)) =>
                    /\ ret'.result = LastN(StoredEntries, limit)
                    /\ ret'.result # << >> \/ StoredEntries = << >>
                    /\ Len(ret'.result) <= LOG_CAPACITY
                    /\ log_file' = log_file
           /\ (events' = events /\ UrlHistory("ITV")) =>
                /\ ret'.result = LastN(UrlEntriesOf("ITV"), URL_HISTORY_LEN)
                /\ log_file' = log_file
           /\ (events' = events /\ TokenHistory) =>
                /\ Len(TokenEntries) >= 2 =>
                        /\ ret'.result # None
                        /\ ret'.result.total_refreshes = Len(TokenEntries)
                        /\ ret'.result.last_refresh = LastTokenTime
                /\ Len(TokenEntries) < 2 => ret'.result = None
                /\ log_file' = log_file
       ]_vars

\* C21 witness: a reader read the whole ledger, at capacity, after an
\* append had evicted the oldest entry and before the latest append
C21_Witness ==
    /\ ret.op = "get_logs"
    /\ ret.status = LOG_CAPACITY
    /\ Len(ret.result) = LOG_CAPACITY
    /\ ret.result[1].timestamp > 1
    /\ ret.result[LOG_CAPACITY].timestamp < now
    /\ Len(StoredEntries) = LOG_CAPACITY
    /\ Len(TokenEntries) >= 1

\* the step of the for loop that ends a cycle: the fetch of the last channel,
\* the loop going on
EndsCycle ==
    /\ SchedulerStep
    /\ sched.idx = Len(CHANNELS)
    /\ sched'.phase # "crashed"

\* C22: a refresh cycle runs at startup and then once per refresh interval:
\* between the end of any cycle and the start of the next one the scheduler
\* sleeps for the configured interval, so no two cycles run back to back.
\* Stated step by step: the step that ends a cycle leaves the scheduler
\* asleep, and the only way out of the sleep is to wake REFRESH_INTERVAL
\* seconds later.
C22_SleepBetweenCycles ==
    [][/\ EndsCycle => sched'.phase = "sleep"
       /\ (sched.phase = "sleep" /\ sched'.phase # "sleep") =>
                /\ sched'.phase = "refresh"
                /\ now' = now + REFRESH_INTERVAL
      ]_vars

\* the entry a successful fetch of the scheduler's channel appends
\* (client.py:140)
RefreshEntry ==
    LogEntry(now, "url_refresh", CHANNELS[sched.idx],
             UrlDetails(LocatorOf(CHANNELS[sched.idx])))

\* C23: after append(e) the ledger is exactly the last 1000 entries of the
\* ledger before the call followed by e: an append never drops, reorders or
\* alters a previously appended entry other than the oldest ones evicted for
\* capacity, also when the stored log was momentarily unreadable or corrupt.
\* Stated for the append of a successful fetch of the scheduler.
C23_AppendKeepsPrior ==
    [][(SchedulerStep /\ sched'.phase # "crashed" /\ LastCall(fetch_calls').ok) =>
            StoredEntries' = LastN(Append(StoredEntries, RefreshEntry), LOG_CAPACITY)
      ]_vars

\* what the service holds for channel d: its cache entry, its latest link
\* and its history, each absent or present, is the same after the step
SameChannel(d) ==
    /\ (d \in DOMAIN cache_store') <=> (d \in DOMAIN cache_store)
    /\ d \in DOMAIN cache_store => cache_store'[d] = cache_store[d]
    /\ (d \in DOMAIN latest_links') <=> (d \in DOMAIN latest_links)
    /\ d \in DOMAIN latest_links => latest_links'[d] = latest_links[d]
    /\ (d \in DOMAIN link_history') <=> (d \in DOMAIN link_history)
    /\ d \in DOMAIN link_history => link_history'[d] = link_history[d]

\* C24: channels are independent in the cache: set(c, .), get(c) and a
\* failed or successful refresh step of channel c leave the cache entry
\* (locator, expiry, validity, requestCount) and the history of every other
\* channel d # c unchanged.  The set of c is the one the successful step
\* makes; a call of record_link for c is held to the same.
C24_ChannelsIndependent ==
    [][ /\ ChannelStep =>
                \A d \in ChannelSet \ {CHANNELS[sched.idx]} : SameChannel(d)
        /\ \A c \in SetChannels :
                ChannelGet(c) => \A d \in ChannelSet \ {c} : SameChannel(d)
        /\ \A c \in LinkChannels :
                ChannelRecord(c, LocatorOf(c)) =>
                    \A d \in ChannelSet \ {c} : SameChannel(d)
      ]_vars

\* C24 witness: a reader was just served the locator of ITV while ITV2 holds
\* an entry that has been read and a history, after a fetch of another
\* channel failed in the cycle under way
C24_Witness ==
    /\ ret.op = "get_cached_url"
    /\ ret.channel = "ITV"
    /\ ret.url # NoUrl
    /\ HasEntry(cache_store, "ITV2")
    /\ cache_store["ITV2"].requests >= 1
    /\ HistoryOf("ITV2") # << >>
    /\ HistoryOf("ITV") # << >>
    /\ sched.phase = "refresh"
    /\ sched.idx > 2
    /\ ~LastCall(fetch_calls).ok

====
